---- MODULE Spec2Model ----
(***************************************************************************)
(* World News API MCP server: the tool catalog, the zod validation         *)
(* schemas, the upstream client makeWorldNewsAPIRequest, the stdio         *)
(* CallTool/ListTools handlers and the HTTP POST /mcp handler.             *)
(*                                                                         *)
(* JavaScript values are records [t, n, s]: t is the typeof tag, n the     *)
(* number (or the length of a string), s the text of a string.  A JSON     *)
(* object is a function from its keys to values.  A message is a sequence  *)
(* of string pieces; template literals concatenate pieces.                 *)
(***************************************************************************)
EXTENDS Integers, Sequences, FiniteSets, TLC

VARIABLES apiKey, conn, stdio

vars == <<apiKey, conn, stdio>>

----------------------------------------------------------------------------
(* JavaScript values *)

Undefined == [t |-> "undefined", n |-> 0, s |-> ""]
Null == [t |-> "null", n |-> 0, s |-> ""]
Str(len, text) == [t |-> "string", n |-> len, s |-> text]
Num(x) == [t |-> "number", n |-> x, s |-> ""]
Bool(text) == [t |-> "boolean", n |-> 0, s |-> text]

EmptyObj == [k \in {} |-> Undefined]
Obj(o) == [t |-> "object", o |-> o]
NoArgs == [t |-> "undefined", o |-> EmptyObj]
NullArgs == [t |-> "null", o |-> EmptyObj]

Get(o, k) == IF k \in DOMAIN o THEN o[k] ELSE Undefined

Range(seq) == {seq[i] : i \in 1..Len(seq)}

----------------------------------------------------------------------------
(* zod field schemas: z.string()/z.number()/z.boolean()/z.enum() with      *)
(* .min/.max/.length/.optional/.default                                    *)

NoB == [has |-> FALSE, v |-> 0]
B(x) == [has |-> TRUE, v |-> x]

ZString(key, lo, hi, optional) ==
  [key |-> key, type |-> "string", lo |-> lo, hi |-> hi, optional |-> optional,
   hasDefault |-> FALSE, default |-> Undefined, enum |-> {}]
ZNumber(key, lo, hi, optional) ==
  [key |-> key, type |-> "number", lo |-> lo, hi |-> hi, optional |-> optional,
   hasDefault |-> FALSE, default |-> Undefined, enum |-> {}]
ZNumberDefault(key, lo, hi, dflt) ==
  [key |-> key, type |-> "number", lo |-> lo, hi |-> hi, optional |-> FALSE,
   hasDefault |-> TRUE, default |-> Num(dflt), enum |-> {}]
ZBoolean(key, optional) ==
  [key |-> key, type |-> "boolean", lo |-> NoB, hi |-> NoB, optional |-> optional,
   hasDefault |-> FALSE, default |-> Undefined, enum |-> {}]
ZEnum(key, values, optional) ==
  [key |-> key, type |-> "enum", lo |-> NoB, hi |-> NoB, optional |-> optional,
   hasDefault |-> FALSE, default |-> Undefined, enum |-> values]

SearchNewsSchema ==
  << ZString("text", B(3), B(100), TRUE),
     ZString("source-country", B(2), B(2), TRUE),
     ZString("language", B(2), B(2), TRUE),
     ZNumber("min-sentiment", B(-1), B(1), TRUE),
     ZNumber("max-sentiment", B(-1), B(1), TRUE),
     ZString("earliest-publish-date", NoB, NoB, TRUE),
     ZString("latest-publish-date", NoB, NoB, TRUE),
     ZString("news-sources", NoB, NoB, TRUE),
     ZString("authors", NoB, NoB, TRUE),
     ZString("categories", NoB, NoB, TRUE),
     ZString("entities", NoB, NoB, TRUE),
     ZString("location-filter", NoB, NoB, TRUE),
     ZString("sort", NoB, NoB, TRUE),
     ZEnum("sort-direction", {"ASC", "DESC"}, TRUE),
     ZNumber("offset", B(0), B(10000), TRUE),
     ZNumberDefault("number", B(1), B(100), 10) >>

TopNewsSchema ==
  << ZString("source-country", B(2), B(2), FALSE),
     ZString("language", B(2), B(2), FALSE),
     ZString("date", NoB, NoB, TRUE),
     ZBoolean("headlines-only", TRUE) >>

RetrieveFrontPageSchema ==
  << ZString("source-country", B(2), B(2), TRUE),
     ZString("source-name", NoB, B(100), TRUE),
     ZString("date", NoB, NoB, TRUE) >>

RetrieveNewsSchema == << ZString("ids", NoB, NoB, FALSE) >>

ExtractNewsSchema ==
  << ZString("url", NoB, B(1000), FALSE), ZBoolean("analyze", TRUE) >>

ExtractNewsLinksSchema ==
  << ZString("url", NoB, B(1000), FALSE), ZBoolean("analyze", TRUE) >>

SearchNewsSourcesSchema == << ZString("name", NoB, B(1000), FALSE) >>

GeoCoordinatesSchema == << ZString("location", NoB, B(1000), FALSE) >>

(* FieldIssue with the upper bound of numbers never checked. *)
FieldIssueNoMax(c, v) ==
  IF v.t = "undefined"
    THEN (IF c.optional \/ c.hasDefault THEN "" ELSE "invalid_type")
  ELSE IF c.type = "string"
    THEN (IF v.t # "string" THEN "invalid_type"
          ELSE IF c.lo.has /\ v.n < c.lo.v THEN "too_small"
          ELSE IF c.hi.has /\ v.n > c.hi.v THEN "too_big"
          ELSE "")
  ELSE IF c.type = "number"
    THEN (IF v.t # "number" THEN "invalid_type"
          ELSE IF c.lo.has /\ v.n < c.lo.v THEN "too_small"
          ELSE "")
  ELSE IF c.type = "boolean"
    THEN (IF v.t # "boolean" THEN "invalid_type" ELSE "")
  ELSE (IF v.t # "string" THEN "invalid_type"
        ELSE IF v.s \notin c.enum THEN "invalid_enum_value"
        ELSE "")

(* The issue code zod reports for value v under field schema c; "" is none. *)
FieldIssue(c, v) ==
  IF v.t = "undefined"
    THEN (IF c.optional \/ c.hasDefault THEN "" ELSE "invalid_type")
  ELSE IF c.type = "string"
    THEN (IF v.t # "string" THEN "invalid_type"
          ELSE IF c.lo.has /\ v.n < c.lo.v THEN "too_small"
          ELSE IF c.hi.has /\ v.n > c.hi.v THEN "too_big"
          ELSE "")
  ELSE IF c.type = "number"
    THEN (IF v.t # "number" THEN "invalid_type"
          ELSE IF c.lo.has /\ v.n < c.lo.v THEN "too_small"
          ELSE IF c.hi.has /\ v.n > c.hi.v THEN "too_big"
          ELSE "")
  ELSE IF c.type = "boolean"
    THEN (IF v.t # "boolean" THEN "invalid_type" ELSE "")
  ELSE (IF v.t # "string" THEN "invalid_type"
        ELSE IF v.s \notin c.enum THEN "invalid_enum_value"
        ELSE "")

(* The message of a ZodError: the JSON text of its issues, in schema order. *)
ZodMessage(issues) ==
  <<"[">> \o
  [i \in 1..(2 * Len(issues)) |->
     IF i % 2 = 1 THEN issues[(i + 1) \div 2].path ELSE issues[i \div 2].code]
  \o <<"]">>

(* ZodParse whose default replaces the value of a field that has one, given *)
(* or not.                                                                  *)
ZodParseDefaultOverrides(schema, args) ==
  IF args.t # "object"
    THEN [ok |-> FALSE, data |-> <<>>,
          issues |-> <<[path |-> "", code |-> "invalid_type"]>>]
    ELSE
      LET Bad(c) == FieldIssue(c, Get(args.o, c.key)) # ""
          Kept(c) == Get(args.o, c.key).t # "undefined" \/ c.hasDefault
          bad == SelectSeq(schema, Bad)
          kept == SelectSeq(schema, Kept)
      IN IF bad # <<>>
           THEN [ok |-> FALSE, data |-> <<>>,
                 issues |-> [i \in 1..Len(bad) |->
                    [path |-> bad[i].key,
                     code |-> FieldIssue(bad[i], Get(args.o, bad[i].key))]]]
           ELSE [ok |-> TRUE, issues |-> <<>>,
                 data |-> [i \in 1..Len(kept) |->
                    [k |-> kept[i].key,
                     v |-> IF kept[i].hasDefault
                             THEN kept[i].default
                             ELSE Get(args.o, kept[i].key)]]]

(* schema.parse(args) of a z.object: every field of the shape is checked,    *)
(* unknown keys are stripped, defaults fill absent fields; the output keeps  *)
(* the shape's key order.                                                    *)
ZodParse(schema, args) ==
  IF args.t # "object"
    THEN [ok |-> FALSE, data |-> <<>>,
          issues |-> <<[path |-> "", code |-> "invalid_type"]>>]
    ELSE
      LET Bad(c) == FieldIssue(c, Get(args.o, c.key)) # ""
          Kept(c) == Get(args.o, c.key).t # "undefined" \/ c.hasDefault
          bad == SelectSeq(schema, Bad)
          kept == SelectSeq(schema, Kept)
      IN IF bad # <<>>
           THEN [ok |-> FALSE, data |-> <<>>,
                 issues |-> [i \in 1..Len(bad) |->
                    [path |-> bad[i].key,
                     code |-> FieldIssue(bad[i], Get(args.o, bad[i].key))]]]
           ELSE [ok |-> TRUE, issues |-> <<>>,
                 data |-> [i \in 1..Len(kept) |->
                    [k |-> kept[i].key,
                     v |-> IF Get(args.o, kept[i].key).t = "undefined"
                             THEN kept[i].default
                             ELSE Get(args.o, kept[i].key)]]]

----------------------------------------------------------------------------
(* The tool catalog `tools`: name, description, the advertised property    *)
(* names in order, and the required list of each inputSchema.              *)

Tool(name, description, properties, required) ==
  [name |-> name, description |-> description,
   properties |-> properties, required |-> required]

tools ==
  << Tool("search_news",
          "Search and filter news by text, date, location, category, language, and more",
          <<"text", "source-country", "language", "min-sentiment", "max-sentiment",
            "earliest-publish-date", "latest-publish-date", "news-sources", "authors",
            "categories", "entities", "location-filter", "sort", "sort-direction",
            "offset", "number">>,
          <<>>),
     Tool("get_top_news",
          "Get the top news from a country in a language for a specific date",
          <<"source-country", "language", "date", "headlines-only">>,
          <<"source-country", "language">>),
     Tool("retrieve_newspaper_front_page",
          "Get the front pages of newspapers from around the world",
          <<"source-country", "source-name", "date">>,
          <<>>),
     Tool("retrieve_news_articles",
          "Retrieve information about one or more news articles by their IDs",
          <<"ids">>,
          <<"ids">>),
     Tool("extract_news",
          "Extract a news article from a website to a well-structured JSON object",
          <<"url", "analyze">>,
          <<"url">>),
     Tool("extract_news_links",
          "Extract news links from a news website",
          <<"url", "analyze">>,
          <<"url">>),
     Tool("search_news_sources",
          "Search whether a news source is being monitored by the World News API",
          <<"name">>,
          <<"name">>),
     Tool("get_geo_coordinates",
          "Retrieve the latitude and longitude of a location name for use in location-filter",
          <<"location">>,
          <<"location">>) >>

(* toolHandlers: the own keys of the object literal, and for each the      *)
(* schema it parses with and the endpoint it requests.                     *)
OwnKeys ==
  {"search_news", "get_top_news", "retrieve_newspaper_front_page",
   "retrieve_news_articles", "extract_news", "extract_news_links",
   "search_news_sources", "get_geo_coordinates"}

SchemaOf(name) ==
  CASE name = "search_news" -> SearchNewsSchema
    [] name = "get_top_news" -> TopNewsSchema
    [] name = "retrieve_newspaper_front_page" -> RetrieveFrontPageSchema
    [] name = "retrieve_news_articles" -> RetrieveNewsSchema
    [] name = "extract_news" -> ExtractNewsSchema
    [] name = "extract_news_links" -> ExtractNewsLinksSchema
    [] name = "search_news_sources" -> SearchNewsSourcesSchema
    [] name = "get_geo_coordinates" -> GeoCoordinatesSchema

EndpointOf(name) ==
  CASE name = "search_news" -> "/search-news"
    [] name = "get_top_news" -> "/top-news"
    [] name = "retrieve_newspaper_front_page" -> "/retrieve-front-page"
    [] name = "retrieve_news_articles" -> "/retrieve-news"
    [] name = "extract_news" -> "/extract-news"
    [] name = "extract_news_links" -> "/extract-news-links"
    [] name = "search_news_sources" -> "/search-news-sources"
    [] name = "get_geo_coordinates" -> "/geo-coordinates"

(* toolHandlers is a plain object literal, so it inherits the members of   *)
(* Object.prototype; these are the inherited names the model exercises.    *)
InheritedKeys == {"toString", "constructor", "__proto__"}

(* `name in toolHandlers`: own and inherited properties alike. *)
InToolHandlers(name) == name \in OwnKeys \/ name \in InheritedKeys

----------------------------------------------------------------------------
(* The upstream client makeWorldNewsAPIRequest *)

API_BASE_URL == "https://api.worldnewsapi.com"

KeyUnset == "<unset>"

NoUrl == [base |-> "", path |-> "", query |-> <<>>]

(* String(value) of a query parameter value *)
ToStringValue(v) ==
  IF v.t = "number" THEN Str(Len(ToString(v.n)), ToString(v.n))
  ELSE IF v.t = "boolean" THEN Str(Len(v.s), v.s)
  ELSE IF v.t = "null" THEN Str(4, "null")
  ELSE v

Step(kind, msg, url, value, steps) ==
  [kind |-> kind, msg |-> msg, url |-> url, value |-> value, steps |-> steps]

NoValue == [t |-> "undefined", n |-> 0, s |-> "", o |-> EmptyObj]
Scalar(v) == [t |-> v.t, n |-> v.n, s |-> v.s, o |-> EmptyObj]
ObjectValue(o) == [t |-> "object", n |-> 0, s |-> "", o |-> o]
JsonValue(text) == [t |-> "json", n |-> 0, s |-> text, o |-> EmptyObj]

(* MakeRequestStart without the credential check: the URL is built and     *)
(* fetched with whatever the environment holds.                            *)
MakeRequestStartNoCheck(endpoint, params, key) ==
  LET Defined(e) == e.v.t # "undefined"
      cleanParams == SelectSeq(params, Defined)
  IN Step("fetch", <<>>,
          [base |-> API_BASE_URL, path |-> endpoint,
           query |-> <<[k |-> "api-key", v |-> Str(Len(key), key)]>> \o
                     [i \in 1..Len(cleanParams) |->
                        [k |-> cleanParams[i].k,
                         v |-> ToStringValue(cleanParams[i].v)]]],
          NoValue, <<"request", "fetch">>)

(* Up to `await fetch(url.toString())`: the credential check, the filter   *)
(* of undefined values and the URL with api-key first.                     *)
MakeRequestStart(endpoint, params, key) ==
  IF key = KeyUnset \/ key = ""
    THEN Step("throw", <<"WORLD_NEWS_API_KEY environment variable is required">>,
              NoUrl, NoValue, <<"request">>)
    ELSE
      LET Defined(e) == e.v.t # "undefined"
          cleanParams == SelectSeq(params, Defined)
      IN Step("fetch", <<>>,
              [base |-> API_BASE_URL, path |-> endpoint,
               query |-> <<[k |-> "api-key", v |-> Str(Len(key), key)]>> \o
                         [i \in 1..Len(cleanParams) |->
                            [k |-> cleanParams[i].k,
                             v |-> ToStringValue(cleanParams[i].v)]]],
              NoValue, <<"request", "fetch">>)

(* What the network gives back to fetch: a rejection, or a response with a *)
(* status and a body that is or is not JSON.                               *)
Rejected == [kind |-> "reject", status |-> 0, parsable |-> FALSE, body |-> ""]
Response(status, parsable, body) ==
  [kind |-> "response", status |-> status, parsable |-> parsable, body |-> body]

(* MakeRequestFinish that fetches the same URL again when the fetch rejects. *)
MakeRequestFinishRetry(url, outcome) ==
  IF outcome.kind = "reject"
    THEN Step("fetch", <<>>, url, NoValue, <<"fetch">>)
  ELSE IF ~(outcome.status >= 200 /\ outcome.status <= 299)
    THEN Step("throw",
              <<"World News API error (", ToString(outcome.status), "): ", outcome.body>>,
              NoUrl, NoValue, <<>>)
  ELSE IF ~outcome.parsable
    THEN Step("throw", <<"Unexpected token in JSON">>, NoUrl, NoValue, <<>>)
  ELSE Step("return", <<>>, NoUrl, JsonValue(outcome.body), <<>>)

(* After the fetch settles: !response.ok throws with status and body text, *)
(* otherwise response.json() is returned (and throws on a non-JSON body).  *)
MakeRequestFinish(url, outcome) ==
  IF outcome.kind = "reject"
    THEN Step("throw", <<"fetch failed">>, NoUrl, NoValue, <<>>)
  ELSE IF ~(outcome.status >= 200 /\ outcome.status <= 299)
    THEN Step("throw",
              <<"World News API error (", ToString(outcome.status), "): ", outcome.body>>,
              NoUrl, NoValue, <<>>)
  ELSE IF ~outcome.parsable
    THEN Step("throw", <<"Unexpected token in JSON">>, NoUrl, NoValue, <<>>)
  ELSE Step("return", <<>>, NoUrl, JsonValue(outcome.body), <<>>)

----------------------------------------------------------------------------
(* toolHandlers[name](args), up to its first suspension.  An own key       *)
(* parses args with its schema and then requests its endpoint; an          *)
(* inherited key runs the member of Object.prototype it names.             *)
ToolHandlerStart(name, args, key) ==
  IF name \in OwnKeys
    THEN LET p == ZodParse(SchemaOf(name), args)
         IN IF ~p.ok
              THEN Step("throw", ZodMessage(p.issues), NoUrl, NoValue, <<"validate">>)
              ELSE LET r == MakeRequestStart(EndpointOf(name), p.data, key)
                   IN [r EXCEPT !.steps = <<"validate">> \o @]
  ELSE IF name = "toString"
    THEN Step("return", <<>>, NoUrl, Scalar(Str(15, "[object Object]")), <<>>)
  ELSE IF name = "constructor"
    THEN Step("return", <<>>, NoUrl,
              ObjectValue(IF args.t = "object" THEN args.o ELSE EmptyObj), <<>>)
  ELSE Step("throw", <<"toolHandlers[name] is not a function">>, NoUrl, NoValue, <<>>)

(* The keys an object is serialised in: the order of the schemas' fields. *)
KeyOrder ==
  <<"text", "source-country", "language", "min-sentiment", "max-sentiment",
    "earliest-publish-date", "latest-publish-date", "news-sources", "authors",
    "categories", "entities", "location-filter", "sort", "sort-direction",
    "offset", "number", "date", "headlines-only", "source-name", "ids", "url",
    "analyze", "name", "location", "extra">>

(* JSON.stringify(result, null, 2) as pieces of text *)
JsonStringify(value) ==
  IF value.t = "json" THEN <<"pretty ", value.s>>
  ELSE IF value.t = "string" THEN <<"\"", value.s, "\"">>
  ELSE IF value.t = "number" THEN <<ToString(value.n)>>
  ELSE IF value.t = "boolean" THEN <<value.s>>
  ELSE IF value.t = "null" THEN <<"null">>
  ELSE IF value.t = "object"
    THEN LET Has(k) == k \in DOMAIN value.o
             keys == SelectSeq(KeyOrder, Has)
         IN <<"{">> \o
            [i \in 1..(2 * Len(keys)) |->
               IF i % 2 = 1 THEN keys[(i + 1) \div 2]
               ELSE LET v == ToStringValue(value.o[keys[i \div 2]])
                    IN IF v.t = "string" THEN v.s ELSE v.t]
            \o <<"}">>
  ELSE <<>>

----------------------------------------------------------------------------
(* JSON-RPC requests and responses *)

NotGiven == "<undefined>"

(* `${x}` of a string that may be undefined *)
Show(x) == IF x = NotGiven THEN "undefined" ELSE x

Params(kind, name, args) == [kind |-> kind, name |-> name, args |-> args]
Body(id, jsonrpc, method, params) ==
  [id |-> id, jsonrpc |-> jsonrpc, method |-> method, params |-> params]

NoResult == [kind |-> "none", tools |-> <<>>, text |-> <<>>]
NoError == [code |-> 0, message |-> <<>>]

(* { tools } *)
ListResult == [kind |-> "tools", tools |-> tools, text |-> <<>>]
(* { content: [{ type: "text", text: JSON.stringify(result, null, 2) }] } *)
ContentResult(value) ==
  [kind |-> "content", tools |-> <<>>, text |-> JsonStringify(value)]

(* res.json({jsonrpc: "2.0", id, result}) and res.json({jsonrpc: "2.0", id, error}): *)
(* express answers with status 200 unless told otherwise.                             *)
ResultResponse(id, result) ==
  [status |-> 200,
   body |-> [jsonrpc |-> "2.0", id |-> id, keys |-> {"result"},
             result |-> result, error |-> NoError]]
ErrorResponse(id, code, message) ==
  [status |-> 200,
   body |-> [jsonrpc |-> "2.0", id |-> id, keys |-> {"error"},
             result |-> NoResult, error |-> [code |-> code, message |-> message]]]

(* The SDK's request schemas, as far as the handlers' inputs go: tools/list *)
(* takes optional object params, tools/call needs params with a string name *)
(* and, when given, an object for arguments.                                *)
ListToolsRequestOk(params) == params.kind # "null"
CallToolRequestOk(params) ==
  /\ params.kind = "object"
  /\ params.name # NotGiven
  /\ params.args.t \in {"undefined", "object"}

----------------------------------------------------------------------------
(* HTTP transport: app.post("/mcp") *)

NoResponse == ErrorResponse(Undefined, 0, <<>>)

Reply(resp, steps) ==
  [kind |-> "respond", resp |-> resp, url |-> NoUrl, steps |-> steps]
Await(url, steps) ==
  [kind |-> "await", resp |-> NoResponse, url |-> url, steps |-> steps]
Escape(steps) ==
  [kind |-> "escape", resp |-> NoResponse, url |-> NoUrl, steps |-> steps]

(* HttpCatch with the try block gone: the exception leaves the handler. *)
HttpCatchMissing(id, msg, steps) == Escape(steps)

(* The catch block: any exception becomes error -32603 with its message. *)
HttpCatch(id, msg, steps) == Reply(ErrorResponse(id, -32603, msg), steps)

(* The tools/call branch after the SDK schema accepted the request. *)
HttpCallTool(id, name, args, key) ==
  IF ~InToolHandlers(name)
    THEN Reply(ErrorResponse(id, -32601, <<"Tool not found: ", name>>),
               <<"route", "lookup">>)
    ELSE LET h == ToolHandlerStart(name, args, key)
             steps == <<"route", "lookup", "invoke">> \o h.steps
         IN IF h.kind = "throw" THEN HttpCatch(id, h.msg, steps)
            ELSE IF h.kind = "return"
              THEN Reply(ResultResponse(id, ContentResult(h.value)), steps)
            ELSE Await(h.url, steps)

(* EnvelopeOk that rejects only a version that is given and wrong. *)
EnvelopeOkLenient(body) == body.jsonrpc = "2.0" \/ body.jsonrpc = NotGiven

(* The envelope check that precedes the try block. *)
EnvelopeOk(body) == body.jsonrpc = "2.0"

(* Route that sends every method but tools/list to the call branch. *)
RouteCallByDefault(method) ==
  IF method = "tools/list" THEN "list" ELSE "call"

(* The branch the method field selects. *)
Route(method) ==
  IF method = "tools/list" THEN "list"
  ELSE IF method = "tools/call" THEN "call"
  ELSE "unknown"

(* The handler from the arrival of the request to its first suspension. *)
HttpStart(body, key) ==
  IF ~EnvelopeOk(body)
    THEN Reply(ErrorResponse(body.id, -32600, <<"Invalid Request">>), <<>>)
  ELSE IF Route(body.method) = "list"
    THEN (IF ~ListToolsRequestOk(body.params)
            THEN HttpCatch(body.id, <<"[", "params", "invalid_type", "]">>, <<"route">>)
            ELSE Reply(ResultResponse(body.id, ListResult), <<"route">>))
  ELSE IF Route(body.method) = "call"
    THEN (IF ~CallToolRequestOk(body.params)
            THEN HttpCatch(body.id, <<"[", "params", "invalid_type", "]">>, <<"route">>)
            ELSE HttpCallTool(body.id, body.params.name, body.params.args, key))
  ELSE Reply(ErrorResponse(body.id, -32601, <<"Unknown method: ", Show(body.method)>>),
             <<"route">>)

(* The handler from the settling of its fetch to its response. *)
HttpFinish(body, url, outcome, steps) ==
  LET r == MakeRequestFinish(url, outcome)
  IN IF r.kind = "throw" THEN HttpCatch(body.id, r.msg, steps)
     ELSE IF r.kind = "fetch" THEN Await(r.url, steps \o r.steps)
     ELSE Reply(ResultResponse(body.id, ContentResult(r.value)), steps)

----------------------------------------------------------------------------
(* Standard-I/O transport: the handlers registered on the SDK server.  A   *)
(* handler ends by returning a result or by throwing an Error.             *)

Returned(result, steps) ==
  [kind |-> "return", result |-> result, msg |-> <<>>, url |-> NoUrl, steps |-> steps]
Thrown(msg, steps) ==
  [kind |-> "throw", result |-> NoResult, msg |-> msg, url |-> NoUrl, steps |-> steps]
Suspended(url, steps) ==
  [kind |-> "await", result |-> NoResult, msg |-> <<>>, url |-> url, steps |-> steps]

(* server.setRequestHandler(ListToolsRequestSchema, ...) *)
StdioListTools == Returned(ListResult, <<>>)

(* StdioCatch that returns the error text as content instead of throwing. *)
StdioCatchReturns(msg, steps) ==
  Returned([kind |-> "content", tools |-> <<>>, text |-> msg], steps)

(* The catch of the CallTool handler: the error is thrown again, wrapped. *)
StdioCatch(msg, steps) ==
  Thrown(<<"World News API request failed: ">> \o msg, steps)

(* server.setRequestHandler(CallToolRequestSchema, ...) to its first suspension *)
StdioCallToolStart(name, args, key) ==
  IF ~InToolHandlers(name)
    THEN Thrown(<<"Unknown tool: ", name>>, <<"lookup">>)
    ELSE LET h == ToolHandlerStart(name, args, key)
             steps == <<"lookup", "invoke">> \o h.steps
         IN IF h.kind = "throw" THEN StdioCatch(h.msg, steps)
            ELSE IF h.kind = "return"
              THEN Returned(ContentResult(h.value), steps)
            ELSE Suspended(h.url, steps)

(* ... and from the settling of its fetch to its end *)
StdioCallToolFinish(url, outcome, steps) ==
  LET r == MakeRequestFinish(url, outcome)
  IN IF r.kind = "throw" THEN StdioCatch(r.msg, steps)
     ELSE IF r.kind = "fetch" THEN Suspended(r.url, steps \o r.steps)
     ELSE Returned(ContentResult(r.value), steps)

----------------------------------------------------------------------------
(* Inputs *)

MaxId == 1

Ids == {Undefined} \cup {Num(i) : i \in 1..MaxId}

ApiKeys == {KeyUnset, "", "k3y"}

Names == OwnKeys \cup InheritedKeys \cup {"nonexistent_tool"}

With(o, k, v) == [x \in DOMAIN o \cup {k} |-> IF x = k THEN v ELSE o[x]]
Without(o, k) == [x \in DOMAIN o \ {k} |-> o[x]]

(* The smallest arguments each tool accepts. *)
BaseArgs(name) ==
  CASE name = "get_top_news" ->
         With(With(EmptyObj, "source-country", Str(2, "us")), "language", Str(2, "en"))
    [] name = "retrieve_news_articles" -> With(EmptyObj, "ids", Str(9, "2352,2354"))
    [] name = "extract_news" -> With(EmptyObj, "url", Str(19, "https://example.com"))
    [] name = "extract_news_links" -> With(EmptyObj, "url", Str(19, "https://example.com"))
    [] name = "search_news_sources" -> With(EmptyObj, "name", Str(3, "bbc"))
    [] name = "get_geo_coordinates" -> With(EmptyObj, "location", Str(12, "Tokyo, Japan"))
    [] OTHER -> EmptyObj

ShapeKeys(name) ==
  IF name \in OwnKeys THEN {c.key : c \in Range(SchemaOf(name))} ELSE {}

Values ==
  {Null, Bool("true"),
   Str(0, ""), Str(2, "us"), Str(3, "ASC"), Str(3, "abc"), Str(100, "x"),
   Str(101, "x"), Str(1000, "x"), Str(1001, "x"),
   Num(-2), Num(-1), Num(0), Num(1), Num(2), Num(100), Num(101), Num(10000),
   Num(10001)}

(* Arguments one edit away from the base: a field dropped, or a field of    *)
(* the tool's schema (or an unknown one) set to any of Values; and for      *)
(* search_news a number beside a text or an offset.                         *)
RichArgs(name) ==
  {NoArgs, Obj(BaseArgs(name))}
    \cup {Obj(Without(BaseArgs(name), k)) : k \in DOMAIN BaseArgs(name)}
    \cup {Obj(With(BaseArgs(name), k, v)) :
            k \in ShapeKeys(name) \cup {"extra"}, v \in Values}
    \cup (IF name = "search_news"
            THEN {Obj(With(With(EmptyObj, k, v), "number", n)) :
                    k \in {"text", "offset"}, v \in Values,
                    n \in {x \in Values : x.t = "number"}}
            ELSE {})

(* A few arguments per tool: the base, none, a required field dropped, and  *)
(* search_news with number below, within and above its bounds.              *)
SampleArgs(name) ==
  {NoArgs, Obj(BaseArgs(name))}
    \cup {Obj(Without(BaseArgs(name), k)) : k \in DOMAIN BaseArgs(name)}
    \cup (IF name = "search_news"
            THEN {Obj(With(EmptyObj, "number", Num(n))) : n \in {0, 3, 101}}
            ELSE {})

SampleParams ==
  UNION {{Params("object", name, args) : args \in SampleArgs(name)} : name \in Names}
    \cup {Params("absent", NotGiven, NoArgs), Params("null", NotGiven, NoArgs),
          Params("object", NotGiven, NoArgs),
          Params("object", "get_top_news", NullArgs)}

FewParams ==
  {Params("absent", NotGiven, NoArgs),
   Params("object", "get_top_news", Obj(BaseArgs("get_top_news"))),
   Params("object", "nonexistent_tool", Obj(EmptyObj))}

Versions == {"2.0", "1.0", NotGiven}
OtherMethods == {"initialize", "tools/unknown", NotGiven}

(* The request bodies POST /mcp is given: every tools/call of SampleParams, *)
(* and every version and method over a few params.                          *)
Bodies ==
  {Body(id, "2.0", "tools/call", p) : id \in Ids, p \in SampleParams}
    \cup {Body(id, v, m, p) :
            id \in Ids, v \in Versions,
            m \in OtherMethods \cup {"tools/list", "tools/call"}, p \in FewParams}

Outcomes ==
  {Rejected,
   Response(200, TRUE, "{news: A}"), Response(200, TRUE, "{news: B}"),
   Response(200, FALSE, "<html>"),
   Response(401, TRUE, "{message: unauthorized}"), Response(500, FALSE, "oops")}

----------------------------------------------------------------------------
(* State *)

Conns == {"c1", "c2"}

NoBody == Body(Undefined, NotGiven, NotGiven, Params("absent", NotGiven, NoArgs))

(* One HTTP request: where its handler stands, the request, the steps the   *)
(* handler has taken, the fetches it has issued, what they settled with,    *)
(* the responses it has sent, and whether an exception left the handler.    *)
IdleConn ==
  [phase |-> "idle", body |-> NoBody, steps |-> <<>>, fetches |-> <<>>,
   settled |-> <<>>, sent |-> <<>>, escaped |-> FALSE]

NoParams == Params("absent", NotGiven, NoArgs)

(* One stdio request: the same for a handler of the SDK server; `out` is    *)
(* the results returned and errors thrown.                                  *)
IdleStdio ==
  [phase |-> "idle", method |-> NotGiven, params |-> NoParams, steps |-> <<>>,
   fetches |-> <<>>, settled |-> <<>>, out |-> <<>>]

(* The connection after its handler ran to r. *)
ConnAfter(c, r) ==
  [c EXCEPT !.phase = IF r.kind = "await" THEN "awaiting" ELSE "done",
            !.steps = r.steps,
            !.fetches = IF r.kind = "await" THEN @ \o <<r.url>> ELSE @,
            !.sent = IF r.kind = "respond" THEN @ \o <<r.resp>> ELSE @,
            !.escaped = (r.kind = "escape")]

StdioAfter(st, r) ==
  [st EXCEPT !.phase = IF r.kind = "await" THEN "awaiting" ELSE "done",
             !.steps = r.steps,
             !.fetches = IF r.kind = "await" THEN @ \o <<r.url>> ELSE @,
             !.out = IF r.kind = "await" THEN @
                     ELSE @ \o <<[kind |-> r.kind, result |-> r.result, msg |-> r.msg]>>]

----------------------------------------------------------------------------
(* Actions *)

(* POST /mcp arrives on connection c and its handler runs to its first      *)
(* suspension or to its response.                                           *)
HttpPost(c, body) ==
  /\ conn[c].phase = "idle"
  /\ conn' = [conn EXCEPT
                ![c] = ConnAfter([IdleConn EXCEPT !.body = body], HttpStart(body, apiKey))]

(* HttpSettle with the request kept in one place for all connections: the  *)
(* handler resumes with the request of another connection that is busy.     *)
HttpSettleShared(c, outcome) ==
  /\ conn[c].phase = "awaiting"
  /\ LET others == {d \in Conns : d # c /\ conn[d].phase # "idle"}
         cur == IF others = {} THEN c ELSE CHOOSE d \in others : TRUE
     IN conn' = [conn EXCEPT
                   ![c] = ConnAfter([conn[c] EXCEPT !.settled = @ \o <<outcome>>],
                                    HttpFinish(conn[cur].body,
                                               conn[c].fetches[Len(conn[c].fetches)],
                                               outcome, conn[c].steps))]

(* The fetch of connection c settles and its handler runs on. *)
HttpSettle(c, outcome) ==
  /\ conn[c].phase = "awaiting"
  /\ conn' = [conn EXCEPT
                ![c] = ConnAfter([conn[c] EXCEPT !.settled = @ \o <<outcome>>],
                                 HttpFinish(conn[c].body,
                                            conn[c].fetches[Len(conn[c].fetches)],
                                            outcome, conn[c].steps))]

(* The client has its response; the connection serves the next request. *)
HttpClose(c) ==
  /\ conn[c].phase = "done"
  /\ conn' = [conn EXCEPT ![c] = IdleConn]

(* A stdio request reaches its handler (the SDK has matched method and      *)
(* schema), which runs to its first suspension or to its end.               *)
StdioRequest(method, params) ==
  /\ stdio.phase = "idle"
  /\ stdio' = StdioAfter([IdleStdio EXCEPT !.method = method, !.params = params],
                         IF method = "tools/list" THEN StdioListTools
                         ELSE StdioCallToolStart(params.name, params.args, apiKey))

StdioSettle(outcome) ==
  /\ stdio.phase = "awaiting"
  /\ stdio' = StdioAfter([stdio EXCEPT !.settled = @ \o <<outcome>>],
                         StdioCallToolFinish(stdio.fetches[Len(stdio.fetches)],
                                             outcome, stdio.steps))

StdioClose ==
  /\ stdio.phase = "done"
  /\ stdio' = IdleStdio

----------------------------------------------------------------------------
(* Spec: the HTTP server with concurrent connections. *)

Init ==
  /\ apiKey \in ApiKeys
  /\ conn = [c \in Conns |-> IdleConn]
  /\ stdio = IdleStdio

Post == \E c \in Conns, body \in Bodies : HttpPost(c, body) /\ UNCHANGED <<apiKey, stdio>>
Settle == \E c \in Conns, o \in Outcomes : HttpSettle(c, o) /\ UNCHANGED <<apiKey, stdio>>
Close == \E c \in Conns : HttpClose(c) /\ UNCHANGED <<apiKey, stdio>>

Next == Post \/ Settle \/ Close

Spec == Init /\ [][Next]_vars

----------------------------------------------------------------------------
(* SpecDispatch: one tools/call at a time, given to both transports, over   *)
(* the rich arguments; both fetches settle with the same upstream outcome.  *)

RichParams ==
  UNION {{Params("object", name, args) : args \in RichArgs(name)} : name \in Names}

Dispatch ==
  \E p \in RichParams :
    /\ HttpPost("c1", Body(Num(1), "2.0", "tools/call", p))
    /\ StdioRequest("tools/call", p)
    /\ UNCHANGED apiKey

SettleBoth ==
  \E o \in Outcomes :
    /\ conn["c1"].phase = "awaiting" \/ stdio.phase = "awaiting"
    /\ IF conn["c1"].phase = "awaiting" THEN HttpSettle("c1", o) ELSE UNCHANGED conn
    /\ IF stdio.phase = "awaiting" THEN StdioSettle(o) ELSE UNCHANGED stdio
    /\ UNCHANGED apiKey

Reset ==
  /\ conn["c1"].phase = "done"
  /\ stdio.phase = "done"
  /\ HttpClose("c1")
  /\ StdioClose
  /\ UNCHANGED apiKey

NextDispatch == Dispatch \/ SettleBoth \/ Reset

SpecDispatch == Init /\ [][NextDispatch]_vars

----------------------------------------------------------------------------
(* Claims *)

Busy(c) == conn[c].phase # "idle"
ToolOf(name) == CHOOSE t \in Range(tools) : t.name = name

(* A required field of the advertised schema is missing from the arguments. *)
RequiredOmitted(p) ==
  /\ p.name \in OwnKeys
  /\ \/ p.args.t # "object"
     \/ \E k \in Range(ToolOf(p.name).required) : k \notin DOMAIN p.args.o

(* A numeric field lies outside the bounds the specification declares:      *)
(* sentiment in [-1,1], result count in [1,100], offset in [0,10000].       *)
NumericOutOfBounds(p) ==
  /\ p.name = "search_news"
  /\ p.args.t = "object"
  /\ \/ \E k \in {"min-sentiment", "max-sentiment"} \cap DOMAIN p.args.o :
          p.args.o[k].t = "number" /\ (p.args.o[k].n < -1 \/ p.args.o[k].n > 1)
     \/ /\ "number" \in DOMAIN p.args.o
        /\ p.args.o["number"].t = "number"
        /\ (p.args.o["number"].n < 1 \/ p.args.o["number"].n > 100)
     \/ /\ "offset" \in DOMAIN p.args.o
        /\ p.args.o["offset"].t = "number"
        /\ (p.args.o["offset"].n < 0 \/ p.args.o["offset"].n > 10000)

FailsValidation(p) ==
  \/ RequiredOmitted(p)
  \/ NumericOutOfBounds(p)
  \/ p.name \in OwnKeys /\ ~ZodParse(SchemaOf(p.name), p.args).ok

HttpFailed(c) ==
  /\ conn[c].phase = "done"
  /\ Len(conn[c].sent) = 1
  /\ conn[c].sent[1].body.keys = {"error"}

StdioFailed ==
  /\ stdio.phase = "done"
  /\ Len(stdio.out) = 1
  /\ stdio.out[1].kind = "throw"

(* C1: a tools/call of a catalog tool whose arguments fail validation (a    *)
(* required field omitted, a numeric field out of its bounds, or any other  *)
(* rejection by the schema) ends in a failure on both transports, and its   *)
(* handler issues no upstream request: no fetch, and the upstream client is *)
(* not even entered.                                                        *)
C1_ValidationBeforeUpstream ==
  /\ Busy("c1") /\ FailsValidation(conn["c1"].body.params) =>
       /\ HttpFailed("c1")
       /\ conn["c1"].fetches = <<>>
       /\ "request" \notin Range(conn["c1"].steps)
  /\ stdio.phase # "idle" /\ FailsValidation(stdio.params) =>
       /\ StdioFailed
       /\ stdio.fetches = <<>>
       /\ "request" \notin Range(stdio.steps)

C1_Witness ==
  /\ apiKey = "k3y"
  /\ conn["c1"].body.params = Params("object", "search_news",
                                     Obj(With(EmptyObj, "number", Num(101))))
  /\ HttpFailed("c1")
  /\ StdioFailed
  /\ conn["c1"].fetches = <<>>
  /\ stdio.fetches = <<>>

IsCall(c) ==
  /\ Busy(c)
  /\ conn[c].body.jsonrpc = "2.0"
  /\ conn[c].body.method = "tools/call"
  /\ CallToolRequestOk(conn[c].body.params)

(* C2: a tools/call whose name is not one of the eight catalog tools is     *)
(* answered with error -32601 (tool not found), never with a result, and    *)
(* neither a validator nor the upstream client runs for it.                 *)
C2_UnknownToolRejected ==
  \A c \in Conns :
    IsCall(c) /\ conn[c].body.params.name \notin {t.name : t \in Range(tools)} =>
      /\ HttpFailed(c)
      /\ conn[c].sent[1].body.error.code = -32601
      /\ "invoke" \notin Range(conn[c].steps)
      /\ conn[c].fetches = <<>>

(* C3: a POST /mcp whose jsonrpc is not "2.0" is answered with error        *)
(* -32600 "Invalid Request" under its own id, whatever its method and       *)
(* params, and the handler takes no further step: no routing, no lookup,    *)
(* no validation, no fetch.                                                 *)
C3_InvalidEnvelope ==
  \A c \in Conns :
    Busy(c) /\ conn[c].body.jsonrpc # "2.0" =>
      /\ conn[c].phase = "done"
      /\ conn[c].sent = <<ErrorResponse(conn[c].body.id, -32600, <<"Invalid Request">>)>>
      /\ conn[c].steps = <<>>
      /\ conn[c].fetches = <<>>

C3_Witness ==
  \E c \in Conns :
    /\ conn[c].phase = "done"
    /\ conn[c].body.jsonrpc = NotGiven
    /\ conn[c].body.method = "tools/call"
    /\ conn[c].body.params.name = "get_top_news"
    /\ conn[c].sent[1].body.error.code = -32600

BothDone == conn["c1"].phase = "done" /\ stdio.phase = "done"

ValidationFailure(c) ==
  /\ IsCall(c)
  /\ HttpFailed(c)
  /\ conn[c].body.params.name \in OwnKeys
  /\ "validate" \in Range(conn[c].steps)
  /\ "request" \notin Range(conn[c].steps)

(* The upstream call was made and failed. *)
UpstreamFailure(c) ==
  /\ IsCall(c)
  /\ HttpFailed(c)
  /\ conn[c].settled # <<>>

(* C6: the error returned by a failed tool call tells its kind: the error   *)
(* of a validation failure and the error of an upstream failure carry       *)
(* different codes.                                                         *)
C6_FailureKindIdentified ==
  \A c, d \in Conns :
    ValidationFailure(c) /\ UpstreamFailure(d) =>
      conn[c].sent[1].body.error.code # conn[d].sent[1].body.error.code

PassesValidation(c) ==
  /\ IsCall(c)
  /\ conn[c].body.params.name \in OwnKeys
  /\ ZodParse(SchemaOf(conn[c].body.params.name), conn[c].body.params.args).ok

UpstreamFailed(o) ==
  \/ o.kind = "reject"
  \/ ~(o.status >= 200 /\ o.status <= 299)
  \/ ~o.parsable

(* C7, as claimed: a tools/call of a catalog tool that passes validation    *)
(* issues exactly one upstream request, to the tool's path.                 *)
C7_ExactlyOneRequest ==
  \A c \in Conns :
    PassesValidation(c) =>
      /\ Len(conn[c].fetches) = 1
      /\ conn[c].fetches[1].path = EndpointOf(conn[c].body.params.name)

(* C7, amended: a tools/call of a catalog tool that passes validation       *)
(* issues exactly one upstream request, to the tool's path under the base   *)
(* URL, when the credential is set, and none (failing at once) when it is   *)
(* unset or empty; once that request has settled the call is over, in       *)
(* failure if the upstream call failed, and no request of any kind ever     *)
(* issues a second fetch.                                                   *)
C7_AtMostOneRequest ==
  \A c \in Conns :
    /\ Len(conn[c].fetches) <= 1
    /\ Len(conn[c].settled) <= 1
    /\ PassesValidation(c) =>
         /\ apiKey \notin {KeyUnset, ""} =>
              /\ Len(conn[c].fetches) = 1
              /\ conn[c].fetches[1].base = "https://api.worldnewsapi.com"
              /\ conn[c].fetches[1].path = EndpointOf(conn[c].body.params.name)
              /\ conn[c].body.params.name = "get_top_news" =>
                   conn[c].fetches[1].path = "/top-news"
         /\ apiKey \in {KeyUnset, ""} => conn[c].fetches = <<>> /\ HttpFailed(c)
         /\ conn[c].settled # <<>> =>
              /\ conn[c].phase = "done"
              /\ UpstreamFailed(conn[c].settled[1]) => HttpFailed(c)

C7_Witness ==
  \E c \in Conns :
    /\ PassesValidation(c)
    /\ conn[c].body.params.name = "get_top_news"
    /\ conn[c].fetches # <<>>
    /\ conn[c].fetches[1].path = "/top-news"
    /\ conn[c].settled = <<Rejected>>
    /\ HttpFailed(c)

(* C8: the response of a request carries the id of that request, and what   *)
(* it reports comes from the upstream call of that request: the request     *)
(* went to the path of its own tool, a parsed body is returned as its       *)
(* result text and a failing status is reported with its own status and     *)
(* body, whatever other requests are in flight and in whatever order they   *)
(* arrive and settle.                                                       *)
C8_OwnResult ==
  \A c \in Conns :
    conn[c].phase = "done" =>
      LET r == conn[c].sent[1].body
      IN /\ r.id = conn[c].body.id
         /\ conn[c].fetches # <<>> =>
              /\ Len(conn[c].settled) = 1
              /\ conn[c].fetches[1].path = EndpointOf(conn[c].body.params.name)
              /\ LET o == conn[c].settled[1]
                 IN IF ~UpstreamFailed(o)
                      THEN r.keys = {"result"} /\ r.result.text = <<"pretty ", o.body>>
                      ELSE /\ r.keys = {"error"}
                           /\ r.error.code = -32603
                           /\ (o.kind = "response" /\ ~(o.status >= 200 /\ o.status <= 299)) =>
                                r.error.message =
                                  <<"World News API error (", ToString(o.status), "): ", o.body>>

C8_Witness ==
  /\ conn["c1"].phase = "done"
  /\ conn["c2"].phase = "done"
  /\ conn["c1"].body.id # conn["c2"].body.id
  /\ conn["c1"].body.params.name = "get_top_news"
  /\ conn["c2"].body.params.name = "search_news"
  /\ conn["c1"].settled = <<Response(200, TRUE, "{news: B}")>>
  /\ conn["c2"].settled = <<Response(200, TRUE, "{news: A}")>>
  /\ conn["c1"].sent[1].body.result.text = <<"pretty ", "{news: B}">>
  /\ conn["c2"].sent[1].body.result.text = <<"pretty ", "{news: A}">>

CatalogNames ==
  <<"search_news", "get_top_news", "retrieve_newspaper_front_page",
    "retrieve_news_articles", "extract_news", "extract_news_links",
    "search_news_sources", "get_geo_coordinates">>

(* C9: tools/list is always answered with the catalog of the eight tools    *)
(* in order, without an upstream request, whatever was requested before,    *)
(* and the listed names are exactly the names tools/call dispatches to a    *)
(* handler.                                                                 *)
C9_ListIsCatalog ==
  /\ \A c \in Conns :
       (/\ Busy(c)
        /\ conn[c].body.jsonrpc = "2.0"
        /\ conn[c].body.method = "tools/list"
        /\ ListToolsRequestOk(conn[c].body.params)) =>
         /\ conn[c].phase = "done"
         /\ conn[c].sent = <<ResultResponse(conn[c].body.id, ListResult)>>
         /\ [i \in 1..Len(conn[c].sent[1].body.result.tools) |->
               conn[c].sent[1].body.result.tools[i].name] = CatalogNames
         /\ conn[c].fetches = <<>>
  /\ \A c \in Conns :
       IsCall(c) =>
         ("invoke" \in Range(conn[c].steps)
            <=> conn[c].body.params.name \in Range(CatalogNames))

(* C10: a POST /mcp with jsonrpc "2.0" whose method is neither tools/list   *)
(* nor tools/call (or is absent) is answered with error -32601 under its    *)
(* own id, and the handler does nothing but route: no lookup, no            *)
(* validation, no fetch.                                                    *)
C10_UnknownMethod ==
  \A c \in Conns :
    (/\ Busy(c)
     /\ conn[c].body.jsonrpc = "2.0"
     /\ conn[c].body.method \notin {"tools/list", "tools/call"}) =>
      /\ HttpFailed(c)
      /\ conn[c].sent[1].body.id = conn[c].body.id
      /\ conn[c].sent[1].body.error.code = -32601
      /\ conn[c].sent[1].body.error.message = <<"Unknown method: ", Show(conn[c].body.method)>>
      /\ conn[c].steps = <<"route">>
      /\ conn[c].fetches = <<>>

C10_Witness ==
  \E c \in Conns :
    /\ conn[c].phase = "done"
    /\ conn[c].body.jsonrpc = "2.0"
    /\ conn[c].body.method = "tools/unknown"
    /\ conn[c].body.params.name = "get_top_news"
    /\ conn[c].sent[1].body.error.code = -32601

KeyAbsent == apiKey = KeyUnset \/ apiKey = ""

ConfigurationMessage == <<"WORLD_NEWS_API_KEY environment variable is required">>

(* C11, as claimed: with the credential absent every call of a catalog tool *)
(* fails with the configuration error, whatever its arguments, and issues   *)
(* no upstream request.                                                     *)
C11_AlwaysConfigurationError ==
  (KeyAbsent /\ Busy("c1") /\ conn["c1"].body.params.name \in OwnKeys) =>
    /\ HttpFailed("c1")
    /\ conn["c1"].sent[1].body.error.message = ConfigurationMessage
    /\ conn["c1"].fetches = <<>>

(* C11, amended: with the credential unset or empty no call of any name     *)
(* issues an upstream request on either transport; every call of a catalog  *)
(* tool fails, with the configuration error when its arguments pass         *)
(* validation and with the validation error (the upstream client not        *)
(* entered) when they do not.                                               *)
C11_NoRequestWithoutCredential ==
  KeyAbsent =>
    /\ conn["c1"].fetches = <<>>
    /\ stdio.fetches = <<>>
    /\ "fetch" \notin Range(conn["c1"].steps) \cup Range(stdio.steps)
    /\ (Busy("c1") /\ conn["c1"].body.params.name \in OwnKeys) =>
         /\ HttpFailed("c1")
         /\ StdioFailed
         /\ IF FailsValidation(conn["c1"].body.params)
              THEN /\ "request" \notin Range(conn["c1"].steps)
                   /\ conn["c1"].sent[1].body.error.message # ConfigurationMessage
              ELSE /\ conn["c1"].sent[1].body.error.code = -32603
                   /\ conn["c1"].sent[1].body.error.message = ConfigurationMessage
                   /\ stdio.out[1].msg =
                        <<"World News API request failed: ">> \o ConfigurationMessage

C11_Witness ==
  /\ apiKey = ""
  /\ conn["c1"].body.params = Params("object", "get_top_news", Obj(BaseArgs("get_top_news")))
  /\ HttpFailed("c1")
  /\ StdioFailed
  /\ conn["c1"].sent[1].body.error.message = ConfigurationMessage
  /\ conn["c1"].fetches = <<>>

(* The values of the `number` parameters in the query of a URL. *)
NumberParams(url) ==
  LET IsNumber(e) == e.k = "number"
  IN SelectSeq(url.query, IsNumber)

(* What the claim expects of the URL fetched for search_news arguments. *)
NumberSentFor(args, url) ==
  /\ Len(NumberParams(url)) = 1
  /\ IF "number" \notin DOMAIN args.o
       THEN NumberParams(url)[1].v = Str(2, "10")
       ELSE /\ args.o["number"].t = "number"
            /\ args.o["number"].n >= 1
            /\ args.o["number"].n <= 100
            /\ NumberParams(url)[1].v.t = "string"
            /\ NumberParams(url)[1].v.s = ToString(args.o["number"].n)

(* search_news arguments that are acceptable apart from `number`, with      *)
(* `number` absent or a number within [1,100].                              *)
NumberAbsentOrWithin(args) ==
  /\ args.t = "object"
  /\ ZodParse(SearchNewsSchema, Obj(Without(args.o, "number"))).ok
  /\ "number" \in DOMAIN args.o =>
       /\ args.o["number"].t = "number"
       /\ args.o["number"].n >= 1
       /\ args.o["number"].n <= 100

(* C12: every upstream request of search_news carries exactly one `number`  *)
(* parameter: "10" when the caller's arguments have no number, and the      *)
(* caller's own value (within [1,100]) when they have one; and with the     *)
(* credential set such a request is issued whenever number is absent or     *)
(* within [1,100] and the other arguments are acceptable.  On both          *)
(* transports.                                                              *)
C12_NumberDefault ==
  /\ (Busy("c1") /\ conn["c1"].body.params.name = "search_news") =>
       /\ conn["c1"].fetches # <<>> =>
            NumberSentFor(conn["c1"].body.params.args, conn["c1"].fetches[1])
       /\ (~KeyAbsent /\ NumberAbsentOrWithin(conn["c1"].body.params.args)) =>
            conn["c1"].fetches # <<>>
  /\ (stdio.phase # "idle" /\ stdio.params.name = "search_news") =>
       /\ stdio.fetches # <<>> => NumberSentFor(stdio.params.args, stdio.fetches[1])
       /\ (~KeyAbsent /\ NumberAbsentOrWithin(stdio.params.args)) =>
            stdio.fetches # <<>>

C12_Witness ==
  /\ conn["c1"].body.params =
       Params("object", "search_news", Obj(With(EmptyObj, "text", Str(3, "abc"))))
  /\ conn["c1"].fetches # <<>>
  /\ NumberParams(conn["c1"].fetches[1]) = <<[k |-> "number", v |-> Str(2, "10")]>>
  /\ stdio.fetches = conn["c1"].fetches

====
